---- MODULE Spec2Model ----
(***************************************************************************)
(* Webhook lifecycle of the Solapi n8n nodes: the checkExists / create /   *)
(* delete hooks of SolapiTrigger.node.ts, of the second trigger source     *)
(* (part_000) and of Solapi.node.ts, run by the host against the remote    *)
(* Solapi service (Spec); beside it the inbound webhook adapter            *)
(* (AdapterSpec), the API-key header of createSolapiAuthHeader             *)
(* (SigningSpec), the credential variant selection of the request helpers  *)
(* (RequestSpec), the hooks and webhook() of the Solapi node under one     *)
(* operation (GatingSpec) and the item loop of Solapi.execute              *)
(* (ExecuteSpec).                                                          *)
(*                                                                         *)
(* Encoding.  "" is the empty string or an absent field, and 0 an absent   *)
(* webhookId: the only falsy values the handlers test for.  The remote     *)
(* service is the pair (outgoing, hooks): the outgoing webhooks it holds   *)
(* and the callback URL each commerce hook is bound to.  The handlers only *)
(* compare URLs and identifiers for equality.                              *)
(***************************************************************************)
EXTENDS Integers, Sequences, FiniteSets, TLC

\* The number of outgoing webhooks the remote service registers in one run.
MaxWebhooks == 1

\* The callback URLs the host computes for the node, the commerce hooks of the
\* account, and the identifiers the service gives the webhooks it registers.
Urls == {"url-1", "url-2"}
Hooks == {"hook-1"}
WebhookIds == 1..MaxWebhooks

Impls == {"SolapiTrigger", "part_000", "Solapi"}
TriggerImpls == {"SolapiTrigger", "part_000"}

\* "" is an eventType parameter that resolves to the empty string
EventTypes == {"commerceAction", "groupReport", "messageReport", ""}
CommerceEventTypes == {"commerceAction"}
ReportEventTypes == {"groupReport", "messageReport"}
\* "sendText" stands for the operations that are no trigger
Operations == {"onCommerceAction", "onGroupReport", "onMessageReport", "sendText"}
TriggerOperations == {"onMessageReport", "onGroupReport", "onCommerceAction"}

\* message of the error a failed remote call throws ("" is an error without one)
ErrorMessages == {"", "ETIMEDOUT"}

VARIABLES
    impl,           \* the node class whose hooks the host runs
    eventType,      \* node parameter 'eventType' (trigger nodes)
    operation,      \* node parameter 'operation' (Solapi node)
    hookId,         \* node parameter 'hookId'
    url,            \* getNodeWebhookUrl('default')
    data,           \* getWorkflowStaticData('node'): the RegistrationState
    outgoing,       \* remote: the outgoing webhooks the service holds
    hooks,          \* remote: hook id -> bound callback URL ("": not connected)
    nextWebhookId,  \* remote: the identifier the next created webhook gets
    pc,             \* lifecycle state of the node instance
    last,           \* the last hook call: its name, outcome and remote calls
    body,           \* inbound webhook: req.body as the host parsed it
    response,       \* inbound webhook: what webhook() returned
    now,            \* signing: the process clock, in milliseconds
    headers,        \* signing: the Authorization headers built so far
    ctx,            \* request: the host context an outbound request is made in
    sent,           \* request: the outbound request as handed to the host
    inputData,      \* execute: getInputData(), each item as the parameters it resolves to
    continueOnFail, \* execute: the node's Continue On Fail setting
    item,           \* execute: the loop index i (0-based)
    returnData,     \* execute: the output entries pushed so far
    requests,       \* execute: the requestSolapi calls made so far
    outcome         \* execute: running, returned [returnData], or raised

vars == <<impl, eventType, operation, hookId, url, data, outgoing, hooks,
          nextWebhookId, pc, last>>

config == <<impl, eventType, operation, hookId, url>>
remote == <<outgoing, hooks, nextWebhookId>>

\* The stateless parts beside the lifecycle: the inbound webhook adapter and
\* the signed request builder.
adapter == <<body, response>>
signing == <<now, headers>>
request == <<ctx, sent>>
execute == <<inputData, continueOnFail, item, returnData, requests, outcome>>

\* execute() has not been called
Running == [state |-> "running", error |-> "", output |-> <<>>]
NotExecuting ==
    /\ inputData = <<>>
    /\ continueOnFail = FALSE
    /\ item = 0
    /\ returnData = <<>>
    /\ requests = <<>>
    /\ outcome = Running

NoError == [type |-> "", message |-> <<>>]

EmptyData == [webhookId |-> 0, commerceHookId |-> "", webhookUrl |-> ""]

\* One remote call as the request helper issued it, and whether it succeeded.
Call_Post(method, path, id, ok) ==
    [method |-> "POST", path |-> path, id |-> id, ok |-> ok]
Call(method, path, id, ok) ==
    [method |-> method, path |-> path, id |-> id, ok |-> ok]

\* The outcomes of an HTTP request that throws.
Failures == {[ok |-> FALSE, message |-> m] : m \in ErrorMessages}

--------------------------------------------------------------------------
\* Pure parts of the handlers.

\* eventType === 'messageReport' ? 'SINGLE-REPORT' : 'GROUP-REPORT'
EventId(et) == IF et = "messageReport" THEN "SINGLE-REPORT" ELSE "GROUP-REPORT"

\* (getNodeParameter('eventType', 0) as string) || 'commerceAction'
OrCommerceAction(et) == IF et = "" THEN "commerceAction" ELSE et

\* operation === 'onMessageReport' ? 'SINGLE-REPORT' : 'GROUP-REPORT'
OperationEventId(op) == IF op = "onMessageReport" THEN "SINGLE-REPORT" ELSE "GROUP-REPORT"

\* data.webhookId && data.webhookUrl === url
ReportFastPath_OtherId(d, u) == d.commerceHookId # "" /\ d.webhookUrl = u
ReportFastPath_Verified(d, u) ==
    d.webhookId # 0 /\ d.webhookUrl = u /\ \E w \in outgoing : w.webhookId = d.webhookId
ReportFastPath(d, u) == d.webhookId # 0 /\ d.webhookUrl = u

\* hookId && data.commerceHookId === hookId && data.webhookUrl === url
CommerceFastPath_NoGuard(h, d, u) == d.commerceHookId = h /\ d.webhookUrl = u
CommerceFastPath(h, d, u) == h # "" /\ d.commerceHookId = h /\ d.webhookUrl = u

\* Array.isArray(res) ? res : (res?.list || res?.webhookList || [])
ParseOutgoingList(res) ==
    IF res.shape \in {"array", "list", "webhookList"} THEN res.arr ELSE <<>>

\* Array.isArray(res) ? res : (res?.list || [])
ParseHookList(res) ==
    IF res.shape \in {"array", "list"} THEN res.arr ELSE <<>>

\* arr.find(w => w?.url === url && (!w?.eventId || w?.eventId === eventId)):
\* the index of the first match, 0 when there is none.
OutgoingMatches_AnyUrl(w, u, eid) == w.eventId = "" \/ w.eventId = eid
OutgoingMatches(w, u, eid) == w.url = u /\ (w.eventId = "" \/ w.eventId = eid)

FindOutgoing_First(arr, u, eid) == IF arr = <<>> THEN 0 ELSE 1
FindOutgoing(arr, u, eid) ==
    LET hits == {i \in 1..Len(arr) : OutgoingMatches(arr[i], u, eid)}
    IN  IF hits = {} THEN 0 ELSE CHOOSE i \in hits : \A j \in hits : i <= j

\* res?.webhookUrl || res?.webhook?.url
CurrentUrl(res) == IF res.webhookUrl # "" THEN res.webhookUrl ELSE res.webhook_url

\* arr.find(h => h?.hookId === hookId && (h?.webhookUrl === url || h?.webhook?.url === url))
HookMatches(h, id, u) == h.hookId = id /\ (h.webhookUrl = u \/ h.webhook_url = u)

FindHook(arr, id, u) ==
    LET hits == {i \in 1..Len(arr) : HookMatches(arr[i], id, u)}
    IN  IF hits = {} THEN 0 ELSE CHOOSE i \in hits : \A j \in hits : i <= j

\* data.webhookId = ...; data.webhookUrl = url
ReportCached_NoUrl(d, id, u) == [d EXCEPT !.webhookId = id]
ReportCached(d, id, u) == [d EXCEPT !.webhookId = id, !.webhookUrl = u]

\* data.commerceHookId = hookId; data.webhookUrl = url
CommerceCached_NoHookId(d, h, u) == [d EXCEPT !.webhookUrl = u]
CommerceCached(d, h, u) == [d EXCEPT !.commerceHookId = h, !.webhookUrl = u]

\* The answer of checkExists to a listing of the outgoing webhooks: adopt the
\* first match that carries a webhookId, otherwise fall through to false.
ReportListed_KeepsUrl(d, u, eid, res) ==
    LET arr == ParseOutgoingList(res)
        i == FindOutgoing(arr, u, eid)
    IN  IF i # 0 /\ arr[i].webhookId # 0
        THEN [returned |-> "true", thrown |-> NoError,
              data |-> ReportCached(d, arr[i].webhookId, u)]
        ELSE [returned |-> "false", thrown |-> NoError,
              data |-> [d EXCEPT !.webhookUrl = u]]
ReportListed(d, u, eid, res) ==
    LET arr == ParseOutgoingList(res)
        i == FindOutgoing(arr, u, eid)
    IN  IF i # 0 /\ arr[i].webhookId # 0
        THEN [returned |-> "true", thrown |-> NoError,
              data |-> ReportCached(d, arr[i].webhookId, u)]
        ELSE [returned |-> "false", thrown |-> NoError, data |-> d]

\* try { GET /webhook/v1/outgoing ... } catch {} return false
ReportLookup_Uncaught(d, u, eid, res) ==
    IF res.ok THEN ReportListed(d, u, eid, res)
    ELSE [returned |-> "throw", thrown |-> [type |-> "Error", message |-> <<res.message>>],
          data |-> d]
ReportLookup(d, u, eid, res) ==
    IF res.ok THEN ReportListed(d, u, eid, res)
    ELSE [returned |-> "false", thrown |-> NoError, data |-> d]

\* (e as any)?.message || 'unknown error'
Cause(m) == IF m = "" THEN "unknown error" ELSE m

\* throw new NodeOperationError(node, `Failed to create Solapi webhook: ${...}`)
CreateError_NoCause(m) ==
    [type |-> "NodeOperationError",
     message |-> <<"Failed to create Solapi webhook: ", "unknown error">>]
CreateError(m) ==
    [type |-> "NodeOperationError",
     message |-> <<"Failed to create Solapi webhook: ", Cause(m)>>]

\* an error of the request helper that no handler catches
RequestError(m) == [type |-> "Error", message |-> <<m>>]

--------------------------------------------------------------------------
\* What the remote service answers.

\* One listed webhook as the listing shows it: webhookId and eventId are
\* optional fields of an entry, which a listing carries (TRUE) or leaves out.
OutgoingView(w, ids, eids) ==
    [webhookId |-> IF ids THEN w.webhookId ELSE 0, url |-> w.url,
     eventId |-> IF eids THEN w.eventId ELSE ""]

\* The registered webhooks in every order the service may list them.
RECURSIVE OutgoingListings(_, _, _)
OutgoingListings(S, ids, eids) ==
    IF S = {} THEN {<<>>}
    ELSE UNION {{<<OutgoingView(w, ids, eids)>> \o rest :
                    rest \in OutgoingListings(S \ {w}, ids, eids)} : w \in S}

\* GET /webhook/v1/outgoing?limit=200
OutgoingListResponses ==
    UNION {{[ok |-> TRUE, shape |-> s, arr |-> a] :
                s \in {"array", "list", "webhookList", "other"},
                a \in OutgoingListings(outgoing, ids, eids)} :
            ids \in BOOLEAN, eids \in BOOLEAN}
    \cup Failures

\* A hook as the service shows it: the bound URL is in webhookUrl or in webhook.url.
HookViews(h) ==
    {[hookId |-> h, webhookUrl |-> hooks[h], webhook_url |-> ""],
     [hookId |-> h, webhookUrl |-> "", webhook_url |-> hooks[h]]}

RECURSIVE HookListings(_)
HookListings(S) ==
    IF S = {} THEN {<<>>}
    ELSE UNION {{<<v>> \o rest : v \in HookViews(h), rest \in HookListings(S \ {h})} :
                    h \in S}

\* GET /commerce/v1/hooks/{hookId}
HookResponses(h) ==
    (IF h \in Hooks THEN {[ok |-> TRUE] @@ v : v \in HookViews(h)} ELSE {}) \cup Failures

\* GET /commerce/v1/hooks?limit=500
HookListResponses ==
    {[ok |-> TRUE, shape |-> s, arr |-> a] :
        s \in {"array", "list", "other"}, a \in HookListings(Hooks)}
    \cup Failures

\* POST /webhook/v1/outgoing: the service registers a webhook under a fresh
\* identifier; the response carries it, or has no webhookId field.
CreateResponses ==
    (IF nextWebhookId \in WebhookIds
        THEN {[ok |-> TRUE, webhookId |-> i] : i \in {nextWebhookId, 0}} ELSE {})
    \cup Failures

\* POST /commerce/v1/hooks/{hookId}/connect-webhook: only an existing hook connects.
ConnectResponses(h) == (IF h \in Hooks THEN {[ok |-> TRUE]} ELSE {}) \cup Failures

\* POST .../disconnect-webhook and DELETE /webhook/v1/outgoing/{id}
TeardownResponses == {[ok |-> TRUE]} \cup Failures

Registered(eid) == outgoing \cup {[webhookId |-> nextWebhookId, url |-> url, eventId |-> eid]}
Connected(h) == [hooks EXCEPT ![h] = url]
Disconnected(h, r) == IF r.ok /\ h \in Hooks THEN [hooks EXCEPT ![h] = ""] ELSE hooks
Deleted(id, r) == IF r.ok THEN {w \in outgoing : w.webhookId # id} ELSE outgoing

--------------------------------------------------------------------------
\* Inbound webhook adapter: the parsed request body and the items made of it.

\* The longest array body.
MaxBodyLen == 2

\* A parsed JSON value that is no array body: its JavaScript type and its text.
Value(kind, val) == [kind |-> kind, val |-> val]

\* what an array body may hold: objects, null, a string, a nested array
Entries ==
    {Value("object", "{a:1}"), Value("object", "{b:2}"), Value("null", "null"),
     Value("string", "text"), Value("array", "[1]")}

\* req.body: an array, an object (also the empty one), null, a primitive, or
\* undefined when the host parsed no body
Bodies ==
    {[kind |-> "array", val |-> "", elems |-> e] :
        e \in UNION {[1..n -> Entries] : n \in 0..MaxBodyLen}}
    \cup {[kind |-> v.kind, val |-> v.val, elems |-> <<>>] :
            v \in {Value("object", "{a:1}"), Value("object", "{}"),
                   Value("null", "null"), Value("undefined", "undefined"),
                   Value("string", "text"), Value("string", ""),
                   Value("number", "1"), Value("number", "0"),
                   Value("boolean", "true"), Value("boolean", "false")}}

NoBody == [kind |-> "none", val |-> "", elems |-> <<>>]
NoResponse == [by |-> "none", noWebhookResponse |-> FALSE, workflowData |-> <<>>]

\* Array.isArray(body)
IsArray(b) == b.kind = "array"

\* JavaScript truthiness of body
Truthy(b) ==
    /\ b.kind \notin {"null", "undefined"}
    /\ ~(b.kind = "string" /\ b.val = "")
    /\ ~(b.kind = "number" /\ b.val = "0")
    /\ ~(b.kind = "boolean" /\ b.val = "false")

\* typeof body
TypeOf(b) == IF b.kind \in {"object", "array", "null"} THEN "object" ELSE b.kind

\* if (Array.isArray(body)) { for (const entry of body) items.push({ json: entry }) }
\* else if (body && typeof body === 'object') { items.push({ json: body }) }
WebhookItems_TypeOnly(b) ==
    IF IsArray(b) THEN [i \in 1..Len(b.elems) |-> [json |-> b.elems[i]]]
    ELSE IF TypeOf(b) = "object" THEN <<[json |-> Value(b.kind, b.val)]>>
    ELSE <<>>
WebhookItems(b) ==
    IF IsArray(b) THEN [i \in 1..Len(b.elems) |-> [json |-> b.elems[i]]]
    ELSE IF Truthy(b) /\ TypeOf(b) = "object" THEN <<[json |-> Value(b.kind, b.val)]>>
    ELSE <<>>

\* return { workflowData: [items] }
WorkflowData(items) ==
    [by |-> "webhook", noWebhookResponse |-> FALSE, workflowData |-> <<items>>]

\* return { noWebhookResponse: true }
NoWebhookResponse ==
    [by |-> "webhook", noWebhookResponse |-> TRUE, workflowData |-> <<>>]

--------------------------------------------------------------------------
\* Signed request builder: variant selection and the API-key header.

\* The milliseconds that pass in one run, and the headers built in it.
MaxClock == 2
MaxHeaders == 2

\* a credential field or node parameter that is undefined
Absent == "<undefined>"

\* getCredentials('solapiApiKeyApi'): the fields are strings, possibly empty,
\* or missing
Credentials ==
    {[apiKey |-> "key-1", apiSecret |-> "secret-1"],
     [apiKey |-> "key-1", apiSecret |-> ""],
     [apiKey |-> "", apiSecret |-> ""],
     [apiKey |-> Absent, apiSecret |-> Absent]}

\* randomBytes(16).toString('hex'): what the random source may deliver
Salts == {"5a17", "c0de"}

Digit == <<"0", "1", "2", "3", "4", "5", "6", "7", "8", "9">>

\* new Date().toISOString(): the clock read to the millisecond
ToISOString(ms) == "2025-01-01T00:00:00.00" \o Digit[ms + 1] \o "Z"

\* createHmac('sha256', key).update(data).digest('hex'), left uninterpreted:
\* a text that names its key and the text it signs
HmacSha256Hex(key, text) == "hmacsha256hex(" \o key \o ";" \o text \o ")"

\* String(credentials.apiKey || '')
StringOrEmpty(v) == IF v = Absent THEN "" ELSE v

\* The template string of createSolapiAuthHeader, as its literal and
\* substituted parts; ms and salt are the clock and the random bytes it reads.
createSolapiAuthHeader_DateOnly(apiKey, apiSecret, ms, salt) ==
    LET dateTime == ToISOString(ms)
        signature == HmacSha256Hex(apiSecret, dateTime)
    IN  <<"HMAC-SHA256 apiKey=", apiKey, ", date=", dateTime, ", salt=", salt,
          ", signature=", signature>>
createSolapiAuthHeader(apiKey, apiSecret, ms, salt) ==
    LET dateTime == ToISOString(ms)
        payload == dateTime \o salt   \* const data = `${dateTime}${salt}`
        signature == HmacSha256Hex(apiSecret, payload)
    IN  <<"HMAC-SHA256 apiKey=", apiKey, ", date=", dateTime, ", salt=", salt,
          ", signature=", signature>>

\* the items of an execution, and the optional itemIndex argument: <<>> when
\* the caller passes none
ItemIndexes == {0, 1}
ItemArgs == {<<>>} \cup {<<i>> : i \in ItemIndexes}

\* what the 'authentication' parameter resolves to ("other": no value of its options)
ParamValues == {"apiKey", "oAuth2", "other", "", Absent}

\* The host context of a request: what its parameter accessors return; an
\* accessor the context does not offer returns undefined through ?.
Contexts ==
    [getNodeParameter : [ItemIndexes -> ParamValues],
     getCurrentNodeParameter : ParamValues]

NoContext ==
    [getNodeParameter |-> [i \in ItemIndexes |-> Absent],
     getCurrentNodeParameter |-> Absent]

\* (typeof itemIndex === 'number' ? ctx.getNodeParameter?.('authentication', itemIndex)
\*     : ctx.getCurrentNodeParameter?.('authentication')) || 'oAuth2'
AuthType_FirstItem(c, arg) ==
    LET v == IF arg # <<>> THEN c.getNodeParameter[0] ELSE c.getCurrentNodeParameter
    IN  IF v \in {"", Absent} THEN "oAuth2" ELSE v
AuthType(c, arg) ==
    LET v == IF arg # <<>> THEN c.getNodeParameter[arg[1]] ELSE c.getCurrentNodeParameter
    IN  IF v \in {"", Absent} THEN "oAuth2" ELSE v

\* ctx.getNodeParameter?.('authentication', 0) ?? ctx.getCurrentNodeParameter?.(...) ?? 'oAuth2'
Part000_AuthType(c) ==
    IF c.getNodeParameter[0] # Absent THEN c.getNodeParameter[0]
    ELSE IF c.getCurrentNodeParameter # Absent THEN c.getCurrentNodeParameter
    ELSE "oAuth2"

\* An outbound request as the host helper receives it: the helper, the
\* credential type named to the host, and the Authorization header this
\* package put on it (<<>>: none).
Request(fn, arg, helper, credentialType, authorization) ==
    [fn |-> fn, itemIndex |-> arg, helper |-> helper,
     credentialType |-> credentialType, authorization |-> authorization]

NoRequest == Request("none", <<>>, "", "", <<>>)

--------------------------------------------------------------------------
\* The host runs the hooks in its activation protocol: checkExists on every
\* activation (also a re-activation of an Active node after a restart), create
\* only after checkExists answered false (pc = "Verifying"), delete on
\* deactivation.  Parameters change while the node is Inactive; the callback URL
\* follows the host's public address and changes between hook calls.

\* No hook has run since the node's parameters or callback URL changed.
Configured ==
    [op |-> "none", returned |-> "none", thrown |-> NoError, calls |-> <<>>]

Init ==
    /\ impl \in Impls
    /\ eventType = "commerceAction"
    /\ operation = "sendText"
    /\ hookId = ""
    /\ url \in Urls
    /\ data = EmptyData
    /\ outgoing = {}
    /\ hooks = [h \in Hooks |-> ""]
    /\ nextWebhookId = 1
    /\ pc = "Inactive"
    /\ last = Configured
    /\ body = NoBody
    /\ response = NoResponse
    /\ now = 0
    /\ headers = <<>>
    /\ ctx = NoContext
    /\ sent = NoRequest
    /\ NotExecuting

SetEventType ==
    /\ UNCHANGED <<adapter, signing, request, execute>>
    /\ impl \in TriggerImpls
    /\ pc = "Inactive"
    /\ \E et \in EventTypes : et # eventType /\ eventType' = et
    /\ last' = Configured
    /\ UNCHANGED <<impl, operation, hookId, url, data, remote, pc>>

SetOperation ==
    /\ UNCHANGED <<adapter, signing, request, execute>>
    /\ impl = "Solapi"
    /\ pc = "Inactive"
    /\ \E op \in Operations : op # operation /\ operation' = op
    /\ last' = Configured
    /\ UNCHANGED <<impl, eventType, hookId, url, data, remote, pc>>

SetHookId ==
    /\ UNCHANGED <<adapter, signing, request, execute>>
    /\ pc = "Inactive"
    /\ \E h \in {""} \cup Hooks : h # hookId /\ hookId' = h
    /\ last' = Configured
    /\ UNCHANGED <<impl, eventType, operation, url, data, remote, pc>>

\* The host's public address, and with it the callback URL, changes.
SetWebhookUrl ==
    /\ UNCHANGED <<adapter, signing, request, execute>>
    /\ pc # "Verifying"
    /\ \E u \in Urls : u # url /\ url' = u
    /\ last' = Configured
    /\ UNCHANGED <<impl, eventType, operation, hookId, data, remote, pc>>

--------------------------------------------------------------------------
\* SolapiTrigger.node.ts

SolapiTrigger_checkExists ==
    /\ UNCHANGED <<adapter, signing, request, execute>>
    /\ impl = "SolapiTrigger"
    /\ pc \in {"Inactive", "Active"}
    /\ UNCHANGED <<config, remote>>
    /\ IF eventType = "commerceAction"
       THEN /\ data' = data
            /\ last' = [op |-> "checkExists",
                        returned |-> IF CommerceFastPath(hookId, data, url)
                                        THEN "true" ELSE "false",
                        thrown |-> NoError, calls |-> <<>>]
       ELSE IF ReportFastPath(data, url)
       THEN /\ data' = data
            /\ last' = [op |-> "checkExists", returned |-> "true",
                        thrown |-> NoError, calls |-> <<>>]
       ELSE \E res \in OutgoingListResponses :
            LET call == Call("GET", "/webhook/v1/outgoing", 0, res.ok)
                out == ReportLookup(data, url, EventId(eventType), res)
            IN  /\ data' = out.data
                /\ last' = [op |-> "checkExists", returned |-> out.returned,
                            thrown |-> out.thrown, calls |-> <<call>>]
    /\ pc' = IF last'.returned = "true" THEN "Active" ELSE "Verifying"

SolapiTrigger_create ==
    /\ UNCHANGED <<adapter, signing, request, execute>>
    /\ impl = "SolapiTrigger"
    /\ pc = "Verifying"
    /\ UNCHANGED config
    /\ IF eventType = "commerceAction"
       THEN \E res \in ConnectResponses(hookId) :
            LET call == Call("POST", "/commerce/v1/hooks/{id}/connect-webhook",
                             hookId, res.ok)
            IN  IF res.ok
                THEN /\ hooks' = Connected(hookId)
                     /\ data' = CommerceCached(data, hookId, url)
                     /\ last' = [op |-> "create", returned |-> "true",
                                 thrown |-> NoError, calls |-> <<call>>]
                     /\ UNCHANGED <<outgoing, nextWebhookId>>
                ELSE /\ last' = [op |-> "create", returned |-> "throw",
                                 thrown |-> CreateError(res.message),
                                 calls |-> <<call @@ [error |-> res.message]>>]
                     /\ UNCHANGED <<data, remote>>
       ELSE \E res \in CreateResponses :
            LET call == Call("POST", "/webhook/v1/outgoing", 0, res.ok)
            IN  IF res.ok
                THEN /\ outgoing' = Registered(EventId(eventType))
                     /\ nextWebhookId' = nextWebhookId + 1
                     /\ data' = ReportCached(data, res.webhookId, url)
                     /\ last' = [op |-> "create", returned |-> "true",
                                 thrown |-> NoError, calls |-> <<call>>]
                     /\ UNCHANGED hooks
                ELSE /\ last' = [op |-> "create", returned |-> "throw",
                                 thrown |-> CreateError(res.message),
                                 calls |-> <<call @@ [error |-> res.message]>>]
                     /\ UNCHANGED <<data, remote>>
    /\ pc' = IF last'.returned = "true" THEN "Active" ELSE "Inactive"

SolapiTrigger_delete ==
    /\ UNCHANGED <<adapter, signing, request, execute>>
    /\ impl = "SolapiTrigger"
    /\ pc = "Active"
    /\ UNCHANGED <<config, data, nextWebhookId>>
    /\ \E r1 \in TeardownResponses, r2 \in TeardownResponses :
       LET c1 == IF data.commerceHookId # ""
                    THEN <<Call("POST", "/commerce/v1/hooks/{id}/disconnect-webhook",
                                data.commerceHookId, r1.ok)>>
                    ELSE <<>>
           c2 == IF data.webhookId # 0
                    THEN <<Call("DELETE", "/webhook/v1/outgoing/{id}", data.webhookId, r2.ok)>>
                    ELSE <<>>
       IN  /\ hooks' = IF c1 # <<>> THEN Disconnected(data.commerceHookId, r1) ELSE hooks
           /\ outgoing' = IF c2 # <<>> THEN Deleted(data.webhookId, r2) ELSE outgoing
           /\ last' = [op |-> "delete", returned |-> "true", thrown |-> NoError,
                       calls |-> c1 \o c2]
    /\ pc' = "Inactive"

--------------------------------------------------------------------------
\* part_000: the second trigger source

Part000_checkExists ==
    /\ UNCHANGED <<adapter, signing, request, execute>>
    /\ impl = "part_000"
    /\ pc \in {"Inactive", "Active"}
    /\ UNCHANGED <<config, remote>>
    /\ IF OrCommerceAction(eventType) = "commerceAction"
       THEN IF CommerceFastPath(hookId, data, url)
            THEN /\ data' = data
                 /\ last' = [op |-> "checkExists", returned |-> "true",
                             thrown |-> NoError, calls |-> <<>>]
            ELSE IF hookId = ""
            THEN /\ data' = data
                 /\ last' = [op |-> "checkExists", returned |-> "false",
                             thrown |-> NoError, calls |-> <<>>]
            ELSE \E res1 \in HookResponses(hookId) :
                 LET call1 == Call("GET", "/commerce/v1/hooks/{id}", hookId, res1.ok)
                     bound == res1.ok /\ CurrentUrl(res1) # "" /\ CurrentUrl(res1) = url
                 IN  IF bound
                     THEN /\ data' = CommerceCached(data, hookId, url)
                          /\ last' = [op |-> "checkExists", returned |-> "true",
                                      thrown |-> NoError, calls |-> <<call1>>]
                     ELSE \E res2 \in HookListResponses :
                          LET call2 == Call("GET", "/commerce/v1/hooks", "", res2.ok)
                              arr == IF res2.ok THEN ParseHookList(res2) ELSE <<>>
                              found == FindHook(arr, hookId, url) # 0
                          IN  /\ data' = IF found THEN CommerceCached(data, hookId, url)
                                                    ELSE data
                              /\ last' = [op |-> "checkExists",
                                          returned |-> IF found THEN "true" ELSE "false",
                                          thrown |-> NoError, calls |-> <<call1, call2>>]
       ELSE IF ReportFastPath(data, url)
       THEN /\ data' = data
            /\ last' = [op |-> "checkExists", returned |-> "true",
                        thrown |-> NoError, calls |-> <<>>]
       ELSE \E res \in OutgoingListResponses :
            LET call == Call("GET", "/webhook/v1/outgoing", 0, res.ok)
                out == ReportLookup(data, url, EventId(OrCommerceAction(eventType)), res)
            IN  /\ data' = out.data
                /\ last' = [op |-> "checkExists", returned |-> out.returned,
                            thrown |-> out.thrown, calls |-> <<call>>]
    /\ pc' = IF last'.returned = "true" THEN "Active" ELSE "Verifying"

Part000_create ==
    /\ UNCHANGED <<adapter, signing, request, execute>>
    /\ impl = "part_000"
    /\ pc = "Verifying"
    /\ UNCHANGED config
    /\ IF OrCommerceAction(eventType) = "commerceAction"
       THEN \E res \in ConnectResponses(hookId) :
            LET call == Call("POST", "/commerce/v1/hooks/{id}/connect-webhook",
                             hookId, res.ok)
            IN  IF res.ok
                THEN /\ hooks' = Connected(hookId)
                     /\ data' = CommerceCached(data, hookId, url)
                     /\ last' = [op |-> "create", returned |-> "true",
                                 thrown |-> NoError, calls |-> <<call>>]
                     /\ UNCHANGED <<outgoing, nextWebhookId>>
                ELSE /\ last' = [op |-> "create", returned |-> "throw",
                                 thrown |-> CreateError(res.message),
                                 calls |-> <<call @@ [error |-> res.message]>>]
                     /\ UNCHANGED <<data, remote>>
       ELSE \E res \in CreateResponses :
            LET call == Call("POST", "/webhook/v1/outgoing", 0, res.ok)
            IN  IF res.ok
                THEN /\ outgoing' = Registered(EventId(OrCommerceAction(eventType)))
                     /\ nextWebhookId' = nextWebhookId + 1
                     /\ data' = ReportCached(data, res.webhookId, url)
                     /\ last' = [op |-> "create", returned |-> "true",
                                 thrown |-> NoError, calls |-> <<call>>]
                     /\ UNCHANGED hooks
                ELSE /\ last' = [op |-> "create", returned |-> "throw",
                                 thrown |-> CreateError(res.message),
                                 calls |-> <<call @@ [error |-> res.message]>>]
                     /\ UNCHANGED <<data, remote>>
    /\ pc' = IF last'.returned = "true" THEN "Active" ELSE "Inactive"

\* No try/catch: the first remote call that throws ends the handler, and the
\* deactivation has not completed.
Part000_delete ==
    /\ UNCHANGED <<adapter, signing, request, execute>>
    /\ impl = "part_000"
    /\ pc = "Active"
    /\ UNCHANGED <<config, data, nextWebhookId>>
    /\ \E r1 \in TeardownResponses, r2 \in TeardownResponses :
       LET c1 == IF data.commerceHookId # ""
                    THEN <<Call("POST", "/commerce/v1/hooks/{id}/disconnect-webhook",
                                data.commerceHookId, r1.ok)>>
                    ELSE <<>>
           threw1 == c1 # <<>> /\ ~r1.ok
           c2 == IF ~threw1 /\ data.webhookId # 0
                    THEN <<Call("DELETE", "/webhook/v1/outgoing/{id}", data.webhookId, r2.ok)>>
                    ELSE <<>>
           threw2 == c2 # <<>> /\ ~r2.ok
       IN  /\ hooks' = IF c1 # <<>> THEN Disconnected(data.commerceHookId, r1) ELSE hooks
           /\ outgoing' = IF c2 # <<>> THEN Deleted(data.webhookId, r2) ELSE outgoing
           /\ last' = [op |-> "delete",
                       returned |-> IF threw1 \/ threw2 THEN "throw" ELSE "true",
                       thrown |-> IF threw1 THEN RequestError(r1.message)
                                  ELSE IF threw2 THEN RequestError(r2.message)
                                  ELSE NoError,
                       calls |-> c1 \o c2]
    /\ pc' = IF last'.returned = "true" THEN "Inactive" ELSE "Active"

--------------------------------------------------------------------------
\* Solapi.node.ts

IsTriggerOperation_ReportOnly(op) == op \in {"onMessageReport", "onGroupReport"}
IsTriggerOperation(op) == op \in TriggerOperations

Solapi_checkExists ==
    /\ UNCHANGED <<adapter, signing, request, execute>>
    /\ impl = "Solapi"
    /\ pc \in {"Inactive", "Active"}
    /\ UNCHANGED <<config, remote, data>>
    /\ last' = [op |-> "checkExists",
                returned |-> IF ~IsTriggerOperation(operation) THEN "true" ELSE "false",
                thrown |-> NoError, calls |-> <<>>]
    /\ pc' = IF last'.returned = "true" THEN "Active" ELSE "Verifying"

Solapi_create ==
    /\ UNCHANGED <<adapter, signing, request, execute>>
    /\ impl = "Solapi"
    /\ pc = "Verifying"
    /\ UNCHANGED config
    /\ IF ~IsTriggerOperation(operation)
       THEN /\ last' = [op |-> "create", returned |-> "true",
                        thrown |-> NoError, calls |-> <<>>]
            /\ UNCHANGED <<data, remote>>
       ELSE IF operation = "onCommerceAction"
       THEN \E res \in ConnectResponses(hookId) :
            LET call == Call("POST", "/commerce/v1/hooks/{id}/connect-webhook",
                             hookId, res.ok)
            IN  IF res.ok
                THEN /\ hooks' = Connected(hookId)
                     /\ data' = [data EXCEPT !.commerceHookId = hookId]
                     /\ last' = [op |-> "create", returned |-> "true",
                                 thrown |-> NoError, calls |-> <<call>>]
                     /\ UNCHANGED <<outgoing, nextWebhookId>>
                ELSE /\ last' = [op |-> "create", returned |-> "throw",
                                 thrown |-> RequestError(res.message),
                                 calls |-> <<call @@ [error |-> res.message]>>]
                     /\ UNCHANGED <<data, remote>>
       ELSE \E res \in CreateResponses :
            LET call == Call("POST", "/webhook/v1/outgoing", 0, res.ok)
            IN  IF res.ok
                THEN /\ outgoing' = Registered(OperationEventId(operation))
                     /\ nextWebhookId' = nextWebhookId + 1
                     /\ data' = [data EXCEPT !.webhookId = res.webhookId]
                     /\ last' = [op |-> "create", returned |-> "true",
                                 thrown |-> NoError, calls |-> <<call>>]
                     /\ UNCHANGED hooks
                ELSE /\ last' = [op |-> "create", returned |-> "throw",
                                 thrown |-> RequestError(res.message),
                                 calls |-> <<call @@ [error |-> res.message]>>]
                     /\ UNCHANGED <<data, remote>>
    /\ pc' = IF last'.returned = "true" THEN "Active" ELSE "Inactive"

Solapi_delete ==
    /\ UNCHANGED <<adapter, signing, request, execute>>
    /\ impl = "Solapi"
    /\ pc = "Active"
    /\ UNCHANGED <<config, data, nextWebhookId>>
    /\ \E r1 \in TeardownResponses, r2 \in TeardownResponses :
       LET c1 == IF data.commerceHookId # ""
                    THEN <<Call("POST", "/commerce/v1/hooks/{id}/disconnect-webhook",
                                data.commerceHookId, r1.ok)>>
                    ELSE <<>>
           c2 == IF data.webhookId # 0
                    THEN <<Call("DELETE", "/webhook/v1/outgoing/{id}", data.webhookId, r2.ok)>>
                    ELSE <<>>
       IN  /\ hooks' = IF c1 # <<>> THEN Disconnected(data.commerceHookId, r1) ELSE hooks
           /\ outgoing' = IF c2 # <<>> THEN Deleted(data.webhookId, r2) ELSE outgoing
           /\ last' = [op |-> "delete", returned |-> "true", thrown |-> NoError,
                       calls |-> c1 \o c2]
    /\ pc' = "Inactive"

--------------------------------------------------------------------------
Next ==
    \/ SetEventType
    \/ SetOperation
    \/ SetHookId
    \/ SetWebhookUrl
    \/ SolapiTrigger_checkExists
    \/ SolapiTrigger_create
    \/ SolapiTrigger_delete
    \/ Part000_checkExists
    \/ Part000_create
    \/ Part000_delete
    \/ Solapi_checkExists
    \/ Solapi_create
    \/ Solapi_delete

Spec == Init /\ [][Next]_vars

--------------------------------------------------------------------------
\* The inbound webhook adapter on its own: the host hands one parsed request
\* body to the webhook() of the node.

\* the lifecycle at rest
Idle ==
    /\ eventType = "commerceAction"
    /\ hookId = ""
    /\ url = "url-1"
    /\ data = EmptyData
    /\ outgoing = {}
    /\ hooks = [h \in Hooks |-> ""]
    /\ nextWebhookId = 1
    /\ pc = "Inactive"
    /\ last = Configured

AdapterInit ==
    /\ Idle
    /\ impl \in Impls
    /\ operation \in IF impl = "Solapi" THEN Operations ELSE {"sendText"}
    /\ body \in Bodies
    /\ response = NoResponse
    /\ now = 0
    /\ headers = <<>>
    /\ ctx = NoContext
    /\ sent = NoRequest
    /\ NotExecuting

SolapiTrigger_webhook ==
    /\ impl = "SolapiTrigger"
    /\ response = NoResponse
    /\ response' = WorkflowData(WebhookItems(body))
    /\ UNCHANGED <<vars, body, signing, request, execute>>

Part000_webhook ==
    /\ impl = "part_000"
    /\ response = NoResponse
    /\ response' = WorkflowData(WebhookItems(body))
    /\ UNCHANGED <<vars, body, signing, request, execute>>

Solapi_webhook ==
    /\ impl = "Solapi"
    /\ response = NoResponse
    /\ response' = IF ~IsTriggerOperation(operation) THEN NoWebhookResponse
                   ELSE WorkflowData(WebhookItems(body))
    /\ UNCHANGED <<vars, body, signing, request, execute>>

AdapterNext ==
    \/ SolapiTrigger_webhook
    \/ Part000_webhook
    \/ Solapi_webhook

AdapterSpec == AdapterInit /\ [][AdapterNext]_<<vars, adapter>>

--------------------------------------------------------------------------
\* The Solapi node under one operation: its webhook hooks as the host runs
\* them, and the inbound requests the host hands to its webhook().

GatingInit ==
    /\ impl = "Solapi"
    /\ eventType = "commerceAction"
    /\ operation \in Operations
    /\ hookId \in {""} \cup Hooks
    /\ url = "url-1"
    /\ data = EmptyData
    /\ outgoing = {}
    /\ hooks = [h \in Hooks |-> ""]
    /\ nextWebhookId = 1
    /\ pc = "Inactive"
    /\ last = Configured
    /\ body \in {b \in Bodies : Len(b.elems) <= 1}
    /\ response = NoResponse
    /\ now = 0
    /\ headers = <<>>
    /\ ctx = NoContext
    /\ sent = NoRequest
    /\ NotExecuting

GatingNext ==
    \/ Solapi_checkExists
    \/ Solapi_create
    \/ Solapi_delete
    \/ Solapi_webhook

GatingSpec == GatingInit /\ [][GatingNext]_<<vars, adapter>>

--------------------------------------------------------------------------
\* The API-key branch of requestSolapi in one process: each signed request
\* reads the credentials, the clock and the random source, and builds a header.

SigningInit ==
    /\ Idle
    /\ impl \in {"Solapi", "part_000"}
    /\ operation = "sendText"
    /\ body = NoBody
    /\ response = NoResponse
    /\ now = 0
    /\ headers = <<>>
    /\ ctx = NoContext
    /\ sent = NoRequest
    /\ NotExecuting

\* time passes between, not during, the synchronous header constructions
Tick ==
    /\ now < MaxClock
    /\ now' = now + 1
    /\ UNCHANGED <<vars, adapter, headers, request, execute>>

Signed(credentials, salt) ==
    LET apiKey == StringOrEmpty(credentials.apiKey)
        apiSecret == StringOrEmpty(credentials.apiSecret)
    IN  [apiKey |-> apiKey, apiSecret |-> apiSecret,
         header |-> createSolapiAuthHeader(apiKey, apiSecret, now, salt)]

Solapi_createSolapiAuthHeader ==
    /\ impl = "Solapi"
    /\ Len(headers) < MaxHeaders
    /\ \E credentials \in Credentials, salt \in Salts :
            headers' = Append(headers, Signed(credentials, salt))
    /\ UNCHANGED <<vars, adapter, now, request, execute>>

Part000_createSolapiAuthHeader ==
    /\ impl = "part_000"
    /\ Len(headers) < MaxHeaders
    /\ \E credentials \in Credentials, salt \in Salts :
            headers' = Append(headers, Signed(credentials, salt))
    /\ UNCHANGED <<vars, adapter, now, request, execute>>

SigningNext ==
    \/ Tick
    \/ Solapi_createSolapiAuthHeader
    \/ Part000_createSolapiAuthHeader

SigningSpec == SigningInit /\ [][SigningNext]_<<vars, signing>>

--------------------------------------------------------------------------
\* One outbound request through each of the request helpers.

RequestInit ==
    /\ Idle
    /\ impl = "Solapi"
    /\ operation = "sendText"
    /\ body = NoBody
    /\ response = NoResponse
    /\ now = 0
    /\ headers = <<>>
    /\ ctx \in Contexts
    /\ sent = NoRequest
    /\ NotExecuting

\* Solapi.node.ts: requestSolapi(ctx, options, itemIndex?)
Solapi_requestSolapi ==
    /\ sent = NoRequest
    /\ \E arg \in ItemArgs, credentials \in Credentials, salt \in Salts :
        sent' = IF AuthType(ctx, arg) = "apiKey"
                THEN Request("requestSolapi", arg, "helpers.request", "solapiApiKeyApi",
                             Signed(credentials, salt).header)
                ELSE Request("requestSolapi", arg, "helpers.requestWithAuthentication",
                             "solapiOAuth2Api", <<>>)
    /\ UNCHANGED <<vars, adapter, signing, ctx, execute>>

\* part_000: requestSolapi(ctx, options)
Part000_requestSolapi ==
    /\ sent = NoRequest
    /\ \E credentials \in Credentials, salt \in Salts :
        sent' = IF Part000_AuthType(ctx) = "apiKey"
                THEN Request("part_000.requestSolapi", <<>>, "helpers.httpRequest",
                             "solapiApiKeyApi", Signed(credentials, salt).header)
                ELSE Request("part_000.requestSolapi", <<>>,
                             "helpers.requestWithAuthentication", "solapiOAuth2Api", <<>>)
    /\ UNCHANGED <<vars, adapter, signing, ctx, execute>>

\* GenericFunctions: solapiApiRequest(ctx, method, endpoint, body?, qs?, headers?,
\* itemIndex?).  Its headers are Accept and Content-Type; the credential type
\* it names to the host, SolapiApiKeyApi, declares two properties and nothing
\* the host could authenticate a request with.
solapiApiRequest ==
    /\ sent = NoRequest
    /\ \E arg \in ItemArgs :
        sent' = Request("solapiApiRequest", arg, "helpers.httpRequestWithAuthentication",
                        IF AuthType(ctx, arg) = "apiKey" THEN "solapiApiKeyApi"
                        ELSE "solapiOAuth2Api",
                        <<>>)
    /\ UNCHANGED <<vars, adapter, signing, ctx, execute>>

RequestNext ==
    \/ Solapi_requestSolapi
    \/ Part000_requestSolapi
    \/ solapiApiRequest

RequestSpec == RequestInit /\ [][RequestNext]_<<vars, request>>

--------------------------------------------------------------------------
\* Solapi.execute: one loop iteration per step.  A string parameter that the
\* code takes apart ('to') is the sequence of its characters; every other
\* string is compared for emptiness only.

\* The longest 'To' string, and the most input items of one run.
MaxToLen == 4
MaxItems == 2

ToChars == {"7", "8", ",", " ", "\n"}
ToStrings == UNION {[1..n -> ToChars] : n \in 0..MaxToLen}
\* what String.prototype.trim removes
WhiteSpace == {" ", "\n", "\t", "\r"}

SendOperations == {"sendText", "sendKakaoATA", "sendKakaoCTA"}
ExecuteOperations == SendOperations \cup TriggerOperations

\* .replace(/\n/g, ',')
ReplaceNewlines(s) == [k \in 1..Len(s) |-> IF s[k] = "\n" THEN "," ELSE s[k]]

\* .split(','): the pieces between the commas, the empty ones included
RECURSIVE Split(_)
Split(s) ==
    IF \A k \in 1..Len(s) : s[k] # ","
    THEN <<s>>
    ELSE LET k == CHOOSE x \in 1..Len(s) :
                      s[x] = "," /\ \A y \in 1..(x - 1) : s[y] # ","
         IN  <<SubSeq(s, 1, k - 1)>> \o Split(SubSeq(s, k + 1, Len(s)))

\* v.trim()
Trim(v) ==
    LET kept == {k \in 1..Len(v) : v[k] \notin WhiteSpace}
    IN  IF kept = {} THEN <<>>
        ELSE SubSeq(v, CHOOSE a \in kept : \A b \in kept : a <= b,
                       CHOOSE a \in kept : \A b \in kept : a >= b)

\* .filter((v) => v)
NonEmpty(v) == v # <<>>

Recipients_NoTrim(toRaw) == SelectSeq(Split(ReplaceNewlines(toRaw)), NonEmpty)
Recipients(toRaw) ==
    LET pieces == Split(ReplaceNewlines(toRaw))
    IN  SelectSeq([k \in 1..Len(pieces) |-> Trim(pieces[k])], NonEmpty)

\* an object literal without properties, and a property set only when `cond`
NoProperties == [k \in {} |-> ""]
Optional(cond, property) == IF cond THEN property ELSE NoProperties

\* (param as string) || '82'
Country(param) == IF param = "" THEN "82" ELSE param

\* const disableSms = !from
DisableSms_Never(from) == FALSE
DisableSms(from) == from = ""

\* buttons.slice(0, 5)
Slice5(buttons) == SubSeq(buttons, 1, IF Len(buttons) < 5 THEN Len(buttons) ELSE 5)

TextMessage(p, to) ==
    [to |-> to, from |-> p.from, country |-> Country(p.country), text |-> p.text]
        @@ Optional(p.subject # "", [subject |-> p.subject])
        @@ Optional(p.imageId # "", [imageId |-> p.imageId])

\* p.variables is the object the code assembles from variablesJson and the
\* 'variables' collection (no properties when neither yields one)
KakaoATAOptions(p) ==
    [pfId |-> p.channelId, templateId |-> p.templateId,
     disableSms |-> DisableSms(p.fromForKakao)]
        @@ Optional(DOMAIN p.variables # {}, [variables |-> p.variables])

\* p.buttons is the array buttonsJson parses to (<<>>: absent, unparsable,
\* no array or an empty one)
KakaoCTAOptions(p) ==
    [pfId |-> p.channelId, disableSms |-> DisableSms(p.fromForKakao),
     adFlag |-> p.adFlag]
        @@ Optional(p.kakaoImageId # "", [imageId |-> p.kakaoImageId])
        @@ Optional(p.buttons # <<>>, [buttons |-> Slice5(p.buttons)])

KakaoATAMessage(p, to) ==
    [to |-> to, country |-> Country(p.country), kakaoOptions |-> KakaoATAOptions(p)]
        @@ Optional(p.fromForKakao # "", [from |-> p.fromForKakao])

KakaoCTAMessage(p, to) ==
    [to |-> to, country |-> Country(p.country), text |-> p.text,
     kakaoOptions |-> KakaoCTAOptions(p)]
        @@ Optional(p.fromForKakao # "", [from |-> p.fromForKakao])

Messages(op, p) ==
    LET recipients == Recipients(p.to)
    IN  [k \in 1..Len(recipients) |->
            CASE op = "sendText"     -> TextMessage(p, recipients[k])
              [] op = "sendKakaoATA" -> KakaoATAMessage(p, recipients[k])
              [] op = "sendKakaoCTA" -> KakaoCTAMessage(p, recipients[k])]

\* the call requestSolapi(this, {method, url, body, headers}, i)
SendMany(op, p, itemIndex) ==
    [method |-> "POST",
     url |-> "https://api.solapi.com/messages/v4/send-many/detail",
     body |-> [messages |-> Messages(op, p), agent |-> [appId |-> "9fEGAmn6N2vt"]],
     itemIndex |-> itemIndex]

\* What requestSolapi gives back: an object with a body property, a value
\* without one, null, or a rejection.
Responses ==
    {[kind |-> k, message |-> ""] : k \in {"withBody", "plain", "null"}}
        \cup {[kind |-> "rejected", message |-> m] : m \in ErrorMessages}

\* the error the iteration throws on this response ("": none);
\* (response as any).body throws on null
Thrown(r) ==
    CASE r.kind = "rejected" -> [thrown |-> TRUE, message |-> r.message]
      [] r.kind = "null" ->
            [thrown |-> TRUE, message |-> "Cannot read properties of null (reading 'body')"]
      [] OTHER -> [thrown |-> FALSE, message |-> ""]

\* (response as any).body ?? response, for the response to item itemIndex
Json(r, itemIndex) ==
    [of |-> IF r.kind = "withBody" THEN "response.body" ELSE "response",
     itemIndex |-> itemIndex]

\* The parameters of one item.  The parameters an operation does not read
\* hold their defaults.
Bare ==
    [country |-> "", text |-> "hi", subject |-> "", imageId |-> "",
     channelId |-> "pf", templateId |-> "tpl", variables |-> NoProperties,
     adFlag |-> FALSE, kakaoImageId |-> "", buttons |-> <<>>]
Full(op) ==
    [country |-> "1", text |-> "hi",
     subject |-> IF op = "sendText" THEN "subject" ELSE "",
     imageId |-> IF op = "sendText" THEN "file-1" ELSE "",
     channelId |-> "pf", templateId |-> "tpl",
     variables |-> IF op = "sendKakaoATA" THEN [k \in {"#{name}"} |-> "kim"]
                                          ELSE NoProperties,
     adFlag |-> op = "sendKakaoCTA",
     kakaoImageId |-> IF op = "sendKakaoCTA" THEN "file-2" ELSE "",
     buttons |-> IF op = "sendKakaoCTA" THEN <<"b1", "b2", "b3", "b4", "b5", "b6">>
                                        ELSE <<>>]
Senders == {"", "029302266"}

ItemParameters(op, tos, rest) ==
    {[to |-> t] @@ [from |-> f, fromForKakao |-> g] @@ r :
        t \in tos, r \in rest,
        f \in (IF op = "sendText" THEN Senders ELSE {""}),
        g \in (IF op \in {"sendKakaoATA", "sendKakaoCTA"} THEN Senders ELSE {""})}

\* runs of one item with every 'To' string, and runs of up to MaxItems items
InputData(op) ==
    IF op \in SendOperations
    THEN {<<p>> : p \in ItemParameters(op, ToStrings, {Bare, Full(op)})}
            \cup UNION {[1..n -> ItemParameters(op, {<<"7">>, <<"7", ",", "8">>}, {Bare})] :
                            n \in (0..MaxItems) \ {1}}
    ELSE UNION {[1..n -> ItemParameters(op, {<<>>}, {Bare})] : n \in 0..MaxItems}

ExecuteInit ==
    /\ impl = "Solapi"
    /\ eventType = "commerceAction"
    /\ operation \in ExecuteOperations
    /\ hookId = ""
    /\ url = "url-1"
    /\ data = EmptyData
    /\ outgoing = {}
    /\ hooks = [h \in Hooks |-> ""]
    /\ nextWebhookId = 1
    /\ pc = "Inactive"
    /\ last = Configured
    /\ body = NoBody
    /\ response = NoResponse
    /\ now = 0
    /\ headers = <<>>
    /\ ctx = NoContext
    /\ sent = NoRequest
    /\ inputData \in InputData(operation)
    /\ continueOnFail \in BOOLEAN
    /\ item = 0
    /\ returnData = <<>>
    /\ requests = <<>>
    /\ outcome = Running

Catch_AlwaysContinue(message) ==
    /\ returnData' = Append(returnData,
                            [json |-> [error |-> message], pairedItem |-> item])
    /\ item' = item + 1
    /\ UNCHANGED outcome

\* catch (error): push the error entry and go on, or rethrow
Catch(message) ==
    IF continueOnFail
    THEN /\ returnData' = Append(returnData,
                                 [json |-> [error |-> message], pairedItem |-> item])
         /\ item' = item + 1
         /\ UNCHANGED outcome
    ELSE /\ outcome' = [Running EXCEPT !.state = "raised", !.error = message]
         /\ UNCHANGED <<returnData, item>>

\* one iteration of a send operation: the request, then the push or the catch
Iteration(op) ==
    /\ outcome.state = "running"
    /\ item < Len(inputData)
    /\ requests' = Append(requests, SendMany(op, inputData[item + 1], item))
    /\ \E r \in Responses :
          IF Thrown(r).thrown
          THEN Catch(Thrown(r).message)
          ELSE /\ returnData' = Append(returnData, [json |-> Json(r, item)])
               /\ item' = item + 1
               /\ UNCHANGED outcome
    /\ UNCHANGED <<vars, adapter, signing, request, inputData, continueOnFail>>

Execute_sendText ==
    /\ operation = "sendText"
    /\ Iteration("sendText")

Execute_sendKakaoATA ==
    /\ operation = "sendKakaoATA"
    /\ Iteration("sendKakaoATA")

Execute_sendKakaoCTA ==
    /\ operation = "sendKakaoCTA"
    /\ Iteration("sendKakaoCTA")

\* throw new NodeOperationError(this.getNode(), 'Unsupported operation')
Execute_unsupported ==
    /\ outcome.state = "running"
    /\ item < Len(inputData)
    /\ operation \notin SendOperations
    /\ Catch("Unsupported operation")
    /\ UNCHANGED <<vars, adapter, signing, request, inputData, continueOnFail, requests>>

\* return [returnData]
Execute_return ==
    /\ outcome.state = "running"
    /\ item = Len(inputData)
    /\ outcome' = [Running EXCEPT !.state = "returned", !.output = <<returnData>>]
    /\ UNCHANGED <<vars, adapter, signing, request, inputData, continueOnFail,
                   item, returnData, requests>>

ExecuteNext ==
    \/ Execute_sendText
    \/ Execute_sendKakaoATA
    \/ Execute_sendKakaoCTA
    \/ Execute_unsupported
    \/ Execute_return

ExecuteSpec == ExecuteInit /\ [][ExecuteNext]_<<vars, execute>>

--------------------------------------------------------------------------
\* Vocabulary of the properties.

\* The step just taken was a run of the named hook.
Ran(name) == last'.op = name

\* The recipients a 'To' string names: the string is cut at every comma and
\* every newline, each piece loses the white space at its ends, and the
\* pieces that are empty then are dropped.
RECURSIVE Pieces(_, _)
Pieces(s, piece) ==
    IF s = <<>> THEN <<piece>>
    ELSE IF Head(s) \in {",", "\n"}
         THEN <<piece>> \o Pieces(Tail(s), <<>>)
         ELSE Pieces(Tail(s), Append(piece, Head(s)))
RECURSIVE StripLeft(_)
StripLeft(t) ==
    IF t # <<>> /\ Head(t) \in WhiteSpace THEN StripLeft(Tail(t)) ELSE t
RECURSIVE StripRight(_)
StripRight(t) ==
    IF t # <<>> /\ t[Len(t)] \in WhiteSpace
    THEN StripRight(SubSeq(t, 1, Len(t) - 1)) ELSE t
RECURSIVE Named(_)
Named(pieces) ==
    IF pieces = <<>> THEN <<>>
    ELSE LET t == StripLeft(StripRight(Head(pieces)))
         IN  (IF t = <<>> THEN <<>> ELSE <<t>>) \o Named(Tail(pieces))
Tokens(s) == Named(Pieces(s, <<>>))

\* the output entry of a failed item, and of one that was sent
IsErrorEntry(e, index) ==
    /\ DOMAIN e = {"json", "pairedItem"}
    /\ e.pairedItem = index
    /\ DOMAIN e.json = {"error"}
IsSentEntry(e, index) ==
    /\ DOMAIN e = {"json"}
    /\ DOMAIN e.json = {"of", "itemIndex"}
    /\ e.json.itemIndex = index

Issued(calls, method, path) ==
    \E i \in 1..Len(calls) : calls[i].method = method /\ calls[i].path = path

SomeCallFailed(calls) == \E i \in 1..Len(calls) : ~calls[i].ok

\* The remote service advertises a subscription bound to callback URL u.
RemoteAdvertises(u) ==
    \/ \E w \in outgoing : w.url = u
    \/ \E h \in Hooks : hooks[h] = u

\* The live remote subscriptions.
Live ==
    {<<"outgoing", w.eventId>> : w \in outgoing}
        \cup {<<"commerce", h>> : h \in {k \in Hooks : hooks[k] # ""}}

LiveCount == Cardinality(outgoing) + Cardinality({k \in Hooks : hooks[k] # ""})

\* The subscription the current parameters of the node ask for.
ConfiguredSubscription ==
    IF impl = "Solapi"
    THEN IF operation = "onCommerceAction" THEN <<"commerce", hookId>>
         ELSE <<"outgoing", OperationEventId(operation)>>
    ELSE IF eventType = "commerceAction" THEN <<"commerce", hookId>>
         ELSE <<"outgoing", EventId(eventType)>>

--------------------------------------------------------------------------
\* C1: in the trigger nodes, checkExists for a report event type with a cached
\* webhookId and a cached webhookUrl equal to the callback URL returns true and
\* issues no remote call.
C1_ReportFastPath ==
    [][(/\ Ran("checkExists")
        /\ impl \in TriggerImpls
        /\ eventType \in ReportEventTypes
        /\ data.webhookId # 0
        /\ data.webhookUrl = url)
       => (last'.returned = "true" /\ last'.calls = <<>>)]_vars

C1_Witness ==
    /\ last.op = "checkExists"
    /\ impl \in TriggerImpls
    /\ eventType \in ReportEventTypes
    /\ data.webhookId # 0
    /\ data.webhookUrl = url
    /\ last.returned = "true"
    /\ last.calls = <<>>
    /\ outgoing = {}

\* C2 as stated: with a stale cached webhookUrl, checkExists of every event kind
\* queries a remote listing and returns true only if an entry of the listing has
\* the callback URL.
C2_StaleQueriesListing_EveryKind ==
    [][(/\ Ran("checkExists")
        /\ impl \in TriggerImpls
        /\ eventType \in ReportEventTypes \cup CommerceEventTypes
        /\ data.webhookUrl \notin {"", url})
       => (/\ \/ Issued(last'.calls, "GET", "/webhook/v1/outgoing")
              \/ Issued(last'.calls, "GET", "/commerce/v1/hooks")
           /\ last'.returned = "true" => RemoteAdvertises(url))]_vars

\* C2 amended: with a cached webhookUrl that differs from the callback URL,
\* checkExists for a report event type queries the outgoing-webhook listing and
\* returns true only if an entry of it has exactly the callback URL; for the
\* commerce kind it returns true only after a remote lookup that shows the
\* configured hook bound to exactly the callback URL.
C2_StaleSlowPath ==
    [][(/\ Ran("checkExists")
        /\ impl \in TriggerImpls
        /\ data.webhookUrl # url)
       => (/\ eventType \in ReportEventTypes
                => /\ Issued(last'.calls, "GET", "/webhook/v1/outgoing")
                   /\ last'.returned = "true" => \E w \in outgoing : w.url = url
           /\ (eventType \in CommerceEventTypes /\ last'.returned = "true")
                => /\ last'.calls # <<>>
                   /\ hookId \in Hooks
                   /\ hooks[hookId] = url)]_vars

\* a stale cache whose webhook the service still lists under the old URL
C2_Witness ==
    /\ last.op = "checkExists"
    /\ impl \in TriggerImpls
    /\ eventType \in ReportEventTypes
    /\ data.webhookUrl \notin {"", url}
    /\ Issued(last.calls, "GET", "/webhook/v1/outgoing")
    /\ last.calls[1].ok
    /\ last.returned = "false"
    /\ \E w \in outgoing : w.url = data.webhookUrl /\ w.webhookId = data.webhookId

\* C3 as stated: in SolapiTrigger.node.ts, for every response to a successful
\* create, the checkExists that follows it at once returns true without a
\* remote call.
C3_CreateThenExists_EveryResponse ==
    [][(/\ last.op = "create"
        /\ last.returned = "true"
        /\ impl = "SolapiTrigger"
        /\ eventType \in ReportEventTypes \cup CommerceEventTypes
        /\ Ran("checkExists"))
       => (last'.returned = "true" /\ last'.calls = <<>>)]_vars

\* C3 amended: a create that returns true and, for the report kind, whose
\* response carried a non-empty webhookId (for the commerce kind, with a
\* non-empty hookId), followed at once by checkExists with the same callback URL
\* and parameters, returns true through the fast path, without a remote call.
C3_CreateThenExists ==
    [][(/\ last.op = "create"
        /\ last.returned = "true"
        /\ impl = "SolapiTrigger"
        /\ eventType \in ReportEventTypes => data.webhookId # 0
        /\ eventType \in CommerceEventTypes => hookId # ""
        /\ eventType \in ReportEventTypes \cup CommerceEventTypes
        /\ Ran("checkExists"))
       => (last'.returned = "true" /\ last'.calls = <<>>)]_vars

\* a create at a callback URL other than the one cached before it
C3_Witness ==
    /\ last.op = "create"
    /\ last.returned = "true"
    /\ impl = "SolapiTrigger"
    /\ eventType \in CommerceEventTypes
    /\ data.webhookId # 0
    /\ data.webhookUrl = url
    /\ \E w \in outgoing : w.url # url
    /\ ENABLED SolapiTrigger_checkExists

\* C4: delete of the trigger nodes returns true and raises no error, whatever
\* the remote calls do.
C4_DeleteAlwaysSucceeds ==
    (last.op = "delete" /\ impl \in TriggerImpls)
        => (last.returned = "true" /\ last.thrown = NoError)

\* C5: with both identifiers cached, delete issues the commerce disconnect call
\* and the outgoing-webhook DELETE call, also when the first one fails.
C5_BothTeardownCallsAttempted ==
    (last.op = "delete" /\ data.commerceHookId # "" /\ data.webhookId # 0)
        => /\ Issued(last.calls, "POST", "/commerce/v1/hooks/{id}/disconnect-webhook")
           /\ Issued(last.calls, "DELETE", "/webhook/v1/outgoing/{id}")

\* C6: when the remote call of create fails, SolapiTrigger.node.ts's create
\* raises an operation error that names the cause, never returns true, and the
\* node is left Inactive.
C6_CreateFailureRaises ==
    (last.op = "create" /\ impl = "SolapiTrigger" /\ SomeCallFailed(last.calls))
        => /\ last.returned = "throw"
           /\ last.thrown.type = "NodeOperationError"
           /\ last.thrown.message =
                <<"Failed to create Solapi webhook: ",
                  IF last.calls[1].error = "" THEN "unknown error"
                  ELSE last.calls[1].error>>
           /\ pc = "Inactive"

C6_Witness ==
    /\ last.op = "create"
    /\ impl = "SolapiTrigger"
    /\ eventType \in ReportEventTypes
    /\ SomeCallFailed(last.calls)
    /\ last.calls[1].error = "ETIMEDOUT"
    /\ last.returned = "throw"

\* C7: checkExists of the trigger nodes never raises: a lookup that throws
\* counts as not found, the next fallback lookup is tried, and the result is a
\* boolean, false when the last lookup threw.
C7_LookupFailureIsNotFound ==
    (last.op = "checkExists" /\ impl \in TriggerImpls)
        => /\ last.returned \in {"true", "false"}
           /\ last.thrown = NoError
           /\ (last.calls # <<>> /\ ~last.calls[Len(last.calls)].ok)
                => last.returned = "false"
           /\ (last.calls # <<>> /\ last.calls[1].path = "/commerce/v1/hooks/{id}"
                    /\ ~last.calls[1].ok)
                => (Len(last.calls) = 2 /\ last.calls[2].path = "/commerce/v1/hooks")

C7_Witness ==
    /\ last.op = "checkExists"
    /\ impl = "SolapiTrigger"
    /\ last.calls # <<>>
    /\ ~last.calls[1].ok
    /\ last.returned = "false"
    /\ \E w \in outgoing : w.url = url

\* C8: between hook calls, the remote service holds at most one live
\* subscription, and while the node is Active it is the one configured.
C8_AtMostOneLiveSubscription ==
    (impl \in {"SolapiTrigger", "Solapi"} /\ pc # "Verifying")
        => /\ LiveCount <= 1
           /\ pc = "Active" => \A sub \in Live : sub = ConfiguredSubscription

C10_NoHookIdIsFalse ==
    (/\ last.op = "checkExists"
     /\ impl \in TriggerImpls
     /\ eventType \in CommerceEventTypes
     /\ hookId = "")
        => (last.returned = "false" /\ last.calls = <<>>)

C10_Witness ==
    /\ last.op = "checkExists"
    /\ impl \in TriggerImpls
    /\ eventType \in CommerceEventTypes
    /\ hookId = ""
    /\ data.webhookId # 0
    /\ data.webhookUrl = url
    /\ last.returned = "false"
    /\ last.calls = <<>>

\* C11: checkExists for the commerce kind with a hookId and a cache that does
\* not match first looks the hook up by id, returning true if the hook is bound
\* to the callback URL; otherwise it lists the hooks and returns true on a match
\* of id and URL; it returns false only after both lookups.
C11_CommerceLookups ==
    [][(/\ Ran("checkExists")
        /\ impl \in TriggerImpls
        /\ eventType \in CommerceEventTypes
        /\ hookId # ""
        /\ ~(data.commerceHookId = hookId /\ data.webhookUrl = url))
       => (/\ last'.calls # <<>>
           /\ last'.calls[1] \in
                {Call("GET", "/commerce/v1/hooks/{id}", hookId, ok) : ok \in BOOLEAN}
           /\ Len(last'.calls) = 2
                => last'.calls[2] \in
                     {Call("GET", "/commerce/v1/hooks", "", ok) : ok \in BOOLEAN}
           /\ last'.returned = "true" => hooks[hookId] = url
           /\ last'.returned = "false" => Len(last'.calls) = 2)]_vars

\* C12: in SolapiTrigger.node.ts, create for the commerce kind without a hookId
\* raises an error and issues no remote call, in particular no connect-webhook
\* POST.
C12_NoHookIdNoRemoteCall ==
    (/\ last.op = "create"
     /\ impl = "SolapiTrigger"
     /\ eventType \in CommerceEventTypes
     /\ hookId = "")
        => (last.returned = "throw" /\ last.calls = <<>>)

\* C13: checkExists of the trigger nodes issues only GET calls, whatever it
\* returns, and leaves the subscriptions of the remote service as they were.
C13_CheckExistsOnlyReads ==
    [][(Ran("checkExists") /\ impl \in TriggerImpls)
       => (/\ \A i \in 1..Len(last'.calls) : last'.calls[i].method = "GET"
           /\ outgoing' = outgoing
           /\ hooks' = hooks)]_vars

\* both commerce lookups issued while the service holds a subscription
C13_Witness ==
    /\ last.op = "checkExists"
    /\ impl = "part_000"
    /\ Len(last.calls) = 2
    /\ last.returned = "false"
    /\ \E h \in Hooks : hooks[h] \notin {"", url}

\* C14: after a create that returns true, for a report kind the cache holds the
\* webhookId of the POST's response (none when the response carries none) and
\* the callback URL as webhookUrl, and the webhook was registered with eventId
\* SINGLE-REPORT for messageReport and GROUP-REPORT for groupReport; for the
\* commerce kind the cache holds the configured hookId as commerceHookId and the
\* callback URL as webhookUrl.
C14_CreatePostCondition ==
    [][(/\ Ran("create")
        /\ last'.returned = "true"
        /\ \/ impl = "SolapiTrigger" /\ eventType \in ReportEventTypes \cup CommerceEventTypes
           \/ impl = "Solapi" /\ operation \in TriggerOperations)
       => LET commerce == ConfiguredSubscription[1] = "commerce"
              single == IF impl = "Solapi" THEN operation = "onMessageReport"
                        ELSE eventType = "messageReport"
          IN  /\ data'.webhookUrl = url
              /\ commerce => data'.commerceHookId = hookId
              /\ ~commerce =>
                    \A w \in outgoing' \ outgoing :
                        /\ data'.webhookId \in {w.webhookId, 0}
                        /\ w.eventId = IF single THEN "SINGLE-REPORT" ELSE "GROUP-REPORT"]_vars

\* C15 as stated: in SolapiTrigger.node.ts, for every response to a create that
\* returns true, a delete that follows it with all of its remote calls succeeding
\* issues the call that ends the subscription that create registered, which is
\* no longer live afterwards.
C15_CleanTeardown_EveryResponse ==
    [][(/\ last.op = "create"
        /\ last.returned = "true"
        /\ impl = "SolapiTrigger"
        /\ eventType \in ReportEventTypes \cup CommerceEventTypes
        /\ Ran("delete")
        /\ ~SomeCallFailed(last'.calls))
       => (/\ eventType \in ReportEventTypes
                => /\ Issued(last'.calls, "DELETE", "/webhook/v1/outgoing/{id}")
                   /\ \A w \in outgoing' : w.webhookId # nextWebhookId - 1
           /\ eventType \in CommerceEventTypes
                => /\ Call("POST", "/commerce/v1/hooks/{id}/disconnect-webhook",
                           hookId, TRUE) \in {last'.calls[i] : i \in 1..Len(last'.calls)}
                   /\ hooks'[hookId] = "")]_vars

\* C15 amended: the same for a create whose response carried a non-empty
\* webhookId (report kinds) or that ran with a non-empty hookId (commerce kind).
C15_CleanTeardown ==
    [][(/\ last.op = "create"
        /\ last.returned = "true"
        /\ impl = "SolapiTrigger"
        /\ eventType \in ReportEventTypes => data.webhookId # 0
        /\ eventType \in CommerceEventTypes => hookId # ""
        /\ eventType \in ReportEventTypes \cup CommerceEventTypes
        /\ Ran("delete")
        /\ ~SomeCallFailed(last'.calls))
       => (/\ eventType \in ReportEventTypes
                => /\ Call("DELETE", "/webhook/v1/outgoing/{id}", nextWebhookId - 1, TRUE)
                        \in {last'.calls[i] : i \in 1..Len(last'.calls)}
                   /\ \A w \in outgoing' : w.webhookId # nextWebhookId - 1
           /\ eventType \in CommerceEventTypes
                => /\ Call("POST", "/commerce/v1/hooks/{id}/disconnect-webhook",
                           hookId, TRUE) \in {last'.calls[i] : i \in 1..Len(last'.calls)}
                   /\ hooks'[hookId] = "")]_vars

\* a create whose registrations the delete after it is about to end
C15_Witness ==
    /\ last.op = "create"
    /\ last.returned = "true"
    /\ impl = "SolapiTrigger"
    /\ eventType \in ReportEventTypes
    /\ data.webhookId # 0
    /\ data.commerceHookId # ""
    /\ \E w \in outgoing : w.webhookId = data.webhookId
    /\ \E h \in Hooks : hooks[h] # ""
    /\ ENABLED SolapiTrigger_delete

--------------------------------------------------------------------------
\* The items a handled request emitted (none when it returned no workflowData).
Emitted ==
    IF response.workflowData = <<>> THEN <<>> ELSE response.workflowData[1]

\* One item {json: element} per element of an array body, in order; one item
\* {json: body} for an object body; no item for any other body.
OneItemPerElement ==
    /\ body.kind = "array"
        => /\ Len(Emitted) = Len(body.elems)
           /\ \A i \in 1..Len(body.elems) : Emitted[i] = [json |-> body.elems[i]]
    /\ body.kind = "object"
        => Emitted = <<[json |-> Value("object", body.val)]>>
    /\ body.kind \notin {"array", "object"} => Emitted = <<>>

\* C16 as stated: for every parsed request body, webhook() of both nodes emits
\* one item per element of a sequence, in order, one item for a single keyed
\* structure and no item for any other shape.
C16_AdapterEmits_EveryRequest ==
    response.by = "webhook"
        => (response.workflowData # <<>> /\ OneItemPerElement)

\* C16 amended: the same for the trigger nodes, and for the Solapi node when
\* its operation is one of the three trigger operations; for any other
\* operation the Solapi node emits no item, whatever the body.
C16_AdapterEmits ==
    response.by = "webhook"
        => IF impl = "Solapi" /\ operation \notin TriggerOperations
           THEN response.noWebhookResponse /\ Emitted = <<>>
           ELSE /\ ~response.noWebhookResponse
                /\ Len(response.workflowData) = 1
                /\ OneItemPerElement

\* an array of two different entries, the second of them null
C16_Witness ==
    /\ response.by = "webhook"
    /\ impl = "Solapi"
    /\ operation = "onGroupReport"
    /\ body.kind = "array"
    /\ Len(body.elems) = 2
    /\ body.elems[1].kind = "object"
    /\ body.elems[2].kind = "null"
    /\ Len(Emitted) = 2

--------------------------------------------------------------------------
DateOf(h) == h[4]
SaltOf(h) == h[6]
SignatureOf(h) == h[8]

\* C17: no two headers built in one process carry the same salt, and no two
\* carry the same date, also when they are built within the same millisecond.
C17_FreshSaltAndDate ==
    \A i, j \in 1..Len(headers) :
        i # j => /\ SaltOf(headers[i].header) # SaltOf(headers[j].header)
                 /\ DateOf(headers[i].header) # DateOf(headers[j].header)

\* C18: for every apiKey and apiSecret, the empty ones included, the header is
\* 'HMAC-SHA256 apiKey=<apiKey>, date=<d>, salt=<s>, signature=<g>' with g the
\* hex HMAC-SHA256 keyed with apiSecret of d followed by s, the date and salt of
\* the same header.
C18_HeaderForm ==
    \A i \in 1..Len(headers) :
        LET h == headers[i].header
        IN  /\ Len(h) = 8
            /\ <<h[1], h[3], h[5], h[7]>> =
                    <<"HMAC-SHA256 apiKey=", ", date=", ", salt=", ", signature=">>
            /\ h[2] = headers[i].apiKey
            /\ DateOf(h) \in {ToISOString(ms) : ms \in 0..MaxClock}
            /\ SaltOf(h) \in Salts
            /\ SignatureOf(h) = HmacSha256Hex(headers[i].apiSecret, DateOf(h) \o SaltOf(h))

\* a header signed with missing credentials after one signed with real ones
C18_Witness ==
    /\ Len(headers) = 2
    /\ headers[1].apiKey = "key-1"
    /\ headers[1].apiSecret = "secret-1"
    /\ headers[2].apiKey = ""
    /\ headers[2].apiSecret = ""
    /\ DateOf(headers[1].header) # DateOf(headers[2].header)
    /\ SaltOf(headers[1].header) # SaltOf(headers[2].header)

--------------------------------------------------------------------------
\* the HMAC-SHA256 Authorization header of this package
IsSolapiAuthHeader(h) == Len(h) = 8 /\ h[1] = "HMAC-SHA256 apiKey="

\* The 'authentication' parameter of the node is 'apiKey': every accessor the
\* context offers returns it.
AuthenticationIsApiKey ==
    /\ \A i \in ItemIndexes : ctx.getNodeParameter[i] = "apiKey"
    /\ ctx.getCurrentNodeParameter \in {"apiKey", Absent}

\* C19: with Authentication 'API Key (HMAC-SHA256)', every outbound request,
\* through every request helper, carries an Authorization header with an
\* HMAC-SHA256 signature built by this package.
C19_ApiKeyRequestsAreSigned ==
    (sent # NoRequest /\ AuthenticationIsApiKey)
        => IsSolapiAuthHeader(sent.authorization)

\* The parameter resolved for the call: per item when an item index is given,
\* otherwise the current node parameter.
Resolved ==
    IF sent.itemIndex # <<>> THEN ctx.getNodeParameter[sent.itemIndex[1]]
    ELSE ctx.getCurrentNodeParameter

ApiKeyPath ==
    /\ sent.credentialType = "solapiApiKeyApi"
    /\ sent.fn = "requestSolapi"
        => (sent.helper = "helpers.request" /\ IsSolapiAuthHeader(sent.authorization))

OAuth2Path ==
    /\ sent.credentialType = "solapiOAuth2Api"
    /\ sent.helper \in {"helpers.requestWithAuthentication",
                        "helpers.httpRequestWithAuthentication"}
    /\ sent.authorization = <<>>

\* C20: requestSolapi of Solapi.node.ts and solapiApiRequest use the API-key
\* path exactly when the parameter resolved for the call is 'apiKey'; for any
\* other value, an empty or an absent one, they delegate to the host's OAuth2
\* helper with credential 'solapiOAuth2Api'; never both.
C20_VariantSelection ==
    sent.fn \in {"requestSolapi", "solapiApiRequest"}
        => /\ ApiKeyPath <=> Resolved = "apiKey"
           /\ OAuth2Path <=> Resolved # "apiKey"

\* the second item asks for the API key while the first and the node do not
C20_Witness ==
    /\ sent.fn = "requestSolapi"
    /\ sent.itemIndex = <<1>>
    /\ ctx.getNodeParameter[0] = "oAuth2"
    /\ ctx.getNodeParameter[1] = "apiKey"
    /\ ctx.getCurrentNodeParameter = "oAuth2"
    /\ ApiKeyPath

--------------------------------------------------------------------------
\* C23: delete of SolapiTrigger.node.ts leaves the RegistrationState as it was,
\* also when its remote calls succeeded; so a checkExists that follows a fully
\* successful delete with the callback URL and the registration still in the
\* cache returns true through the fast path, without a remote call.
C23_DeleteKeepsCache ==
    [][(impl = "SolapiTrigger")
       => /\ Ran("delete") => data' = data
          /\ (/\ last.op = "delete"
              /\ last.calls # <<>>
              /\ ~SomeCallFailed(last.calls)
              /\ Ran("checkExists")
              /\ data.webhookUrl = url
              /\ \/ eventType \in ReportEventTypes /\ data.webhookId # 0
                 \/ eventType \in CommerceEventTypes /\ hookId # ""
                        /\ data.commerceHookId = hookId)
                => (last'.returned = "true" /\ last'.calls = <<>>)]_vars

\* checkExists answered true after the delete that ended the only subscription
C23_Witness ==
    /\ impl = "SolapiTrigger"
    /\ last.op = "checkExists"
    /\ last.returned = "true"
    /\ last.calls = <<>>
    /\ eventType \in ReportEventTypes
    /\ data.webhookId # 0
    /\ data.webhookUrl = url
    /\ nextWebhookId > 1
    /\ outgoing = {}
    /\ \A h \in Hooks : hooks[h] = ""

\* C24: in the trigger nodes, a create whose remote call fails and a
\* checkExists that returns false leave the RegistrationState exactly as it
\* was; the cache is written only by a create or a checkExists that returns
\* true after a remote call that succeeded.
C24_CacheUnchangedOnError ==
    [][(impl \in TriggerImpls /\ (Ran("create") \/ Ran("checkExists")))
       => /\ last'.returned # "true" => data' = data
          /\ data' # data
                => /\ last'.returned = "true"
                   /\ last'.calls # <<>>
                   /\ last'.calls[Len(last'.calls)].ok]_vars

\* a failed create and a lookup that found nothing, over a cache that holds an
\* earlier registration
C24_Witness ==
    /\ impl \in TriggerImpls
    /\ \/ last.op = "create" /\ last.returned = "throw"
       \/ last.op = "checkExists" /\ last.returned = "false" /\ last.calls # <<>>
                /\ last.calls[1].ok
    /\ data.webhookId # 0
    /\ data.webhookUrl # url
    /\ outgoing # {}

\* C25: in the trigger nodes, checkExists for a report event type returns true
\* on the strength of the cache only if the subscription with the cached
\* webhookId is one for the configured event id: SINGLE-REPORT for
\* messageReport, GROUP-REPORT otherwise.
C25_TrueOnlyForConfiguredEventId ==
    (/\ last.op = "checkExists"
     /\ impl \in TriggerImpls
     /\ eventType \in ReportEventTypes
     /\ last.returned = "true"
     /\ last.calls = <<>>)
        => \A w \in outgoing :
                w.webhookId = data.webhookId => w.eventId = EventId(eventType)

--------------------------------------------------------------------------
--------------------------------------------------------------------------
\* C21: for every 'To' string the send operations build exactly one message
\* per non-empty trimmed token of the string cut at commas and newlines, in
\* input order, and the messages of one input item go out in one send-many
\* request.
C21_OneMessagePerToken ==
    operation \in SendOperations
        => /\ Len(requests) = item + (IF outcome.state = "raised" THEN 1 ELSE 0)
           /\ \A k \in 1..Len(requests) :
                LET messages == requests[k].body.messages
                    tokens == Tokens(inputData[k].to)
                IN  /\ requests[k].itemIndex = k - 1
                    /\ requests[k].url = "https://api.solapi.com/messages/v4/send-many/detail"
                    /\ Len(messages) = Len(tokens)
                    /\ \A j \in 1..Len(messages) : messages[j].to = tokens[j]

\* a 'To' string with a newline and a blank, sent as two messages of one
\* request, in the order of the string
C21_Witness ==
    /\ outcome.state = "returned"
    /\ operation \in SendOperations
    /\ Len(inputData) = 1
    /\ inputData[1].to = <<"8", "\n", " ", "7">>
    /\ Len(requests) = 1
    /\ Len(requests[1].body.messages) = 2
    /\ requests[1].body.messages[1].to = <<"8">>
    /\ requests[1].body.messages[2].to = <<"7">>

\* C22: for sendKakaoATA and sendKakaoCTA, kakaoOptions.disableSms is true
\* exactly when fromForKakao is empty, and a message has a 'from' field
\* exactly when fromForKakao is not empty.
C22_DisableSmsIffNoSender ==
    operation \in {"sendKakaoATA", "sendKakaoCTA"}
        => \A k \in 1..Len(requests) :
             \A j \in 1..Len(requests[k].body.messages) :
                LET message == requests[k].body.messages[j]
                    fromForKakao == inputData[k].fromForKakao
                IN  /\ message.kakaoOptions.disableSms = (fromForKakao = "")
                    /\ ("from" \in DOMAIN message) = (fromForKakao # "")
                    /\ "from" \in DOMAIN message => message.from = fromForKakao

\* two Kakao items of one run, the first without and the second with a
\* fallback sender
C22_Witness ==
    /\ operation \in {"sendKakaoATA", "sendKakaoCTA"}
    /\ Len(requests) = 2
    /\ inputData[1].fromForKakao = ""
    /\ inputData[2].fromForKakao # ""
    /\ requests[1].body.messages[1].kakaoOptions.disableSms
    /\ ~requests[2].body.messages[1].kakaoOptions.disableSms
    /\ requests[2].body.messages[1].from = "029302266"

\* C26: with continueOnFail the output holds one entry per input item in
\* input order, a failing item i gives {json: {error: message}, pairedItem: i}
\* and the loop goes on with item i+1; without it the first failing item
\* (an item of an operation that is no send operation fails with
\* 'Unsupported operation') raises, no later item is sent and nothing is
\* returned.
C26_PerItemErrorHandling ==
    [][/\ continueOnFail
            => /\ outcome'.state # "raised"
               /\ item' # item
                    => /\ item' = item + 1
                       /\ Len(returnData') = item'
                       /\ SubSeq(returnData', 1, item) = returnData
                       /\ \/ IsErrorEntry(returnData'[item'], item)
                          \/ IsSentEntry(returnData'[item'], item)
                       /\ operation \notin SendOperations
                            => returnData'[item'] =
                                   [json |-> [error |-> "Unsupported operation"],
                                    pairedItem |-> item]
               /\ outcome'.state = "returned"
                    => /\ outcome'.output = <<returnData>>
                       /\ Len(returnData) = Len(inputData)
       /\ ~continueOnFail
            => /\ \A k \in 1..Len(returnData') : IsSentEntry(returnData'[k], k - 1)
               /\ (outcome.state = "running" /\ item < Len(inputData)
                   /\ operation \notin SendOperations /\ execute' # execute)
                    => /\ outcome'.state = "raised"
                       /\ outcome'.error = "Unsupported operation"
               /\ outcome'.state = "raised"
                    => /\ outcome'.output = <<>>
                       /\ returnData' = returnData
                       /\ item' = item
                       /\ \A k \in 1..Len(requests') : requests'[k].itemIndex <= item
               /\ outcome.state = "raised" => execute' = execute
               /\ outcome'.state = "returned"
                    => /\ outcome'.output = <<returnData>>
                       /\ Len(returnData) = Len(inputData)
                       /\ Len(requests) = Len(inputData)]_<<vars, execute>>

\* a run that went on after a failed first item and returned both entries
C26_Witness ==
    /\ continueOnFail
    /\ outcome.state = "returned"
    /\ Len(inputData) = 2
    /\ outcome.output = <<returnData>>
    /\ operation \in SendOperations
    /\ returnData[1] = [json |-> [error |-> "ETIMEDOUT"], pairedItem |-> 0]
    /\ IsSentEntry(returnData[2], 1)
    /\ Len(requests) = 2

====
